---- MODULE Spec2Model ----
(***************************************************************************)
(* A model of llm_utils: the resumable batch runner (batch_utils.py), the  *)
(* JSON-lines output log it appends to (jsonl_utils.py) and the bounded    *)
(* retry wrapper around the remote completion call (litellm_utils.py).     *)
(*                                                                         *)
(* Positions in the dataset are 1-based here; the index the generator      *)
(* yields is the Python one (position - 1).  A record is written to the    *)
(* log in two parts ("head" then "tail"): a buffered text file hands a     *)
(* record to the operating system in one or more pieces, so two writers    *)
(* that are not serialized can interleave their pieces.                    *)
(***************************************************************************)
EXTENDS Integers, Sequences, FiniteSets, TLC

\* Bounds of the model.
MaxLen == 2
MaxAttempts == 2
MaxThreads == 2
MaxRuns == 2

\* multiprocessing.Pool's default chunk size is len / (4 * processes), rounded up.
PoolChunkFactor == 4

VARIABLES
    dataset,        \* batch_run's dataset: a sequence of items [id |-> ...]
    max_attempts,   \* the max_attempts run_func passes to get_completion
    faulty,         \* positions whose callbacks / remote calls may misbehave
    exists,         \* osp.exists(output_path)
    log,            \* the content of the output file, in written pieces
    lock,           \* holder of FileLock(output_path + ".lock"), or NoWorker
    status,         \* where batch_run is: idle, seq, par, pool, returned, raised
    runs,           \* number of batch_run calls made so far
    num_threads,    \* batch_run's num_threads of the current call
    gen,            \* the state of the enumerate_resume generator object
    pending,        \* the (index, item) pairs the generator has yielded
    taskqueue,      \* the pool's queue of chunks not yet taken by a worker
    number_left,    \* MapResult._number_left: chunks not yet completed
    workers,        \* per process: position in process_item, chunk left to do
    results,        \* per position: what process_item returned
    error,          \* the exception batch_run ends with (first one stored)
    asm_count,      \* per position: calls of assemble_func in this run
    log0,           \* the log when the current batch_run call started
    waiting         \* the processes at the lock, in the order they came to it

vars == <<dataset, max_attempts, faulty, exists, log, lock, status, runs,
          num_threads, gen, pending, taskqueue, number_left, workers,
          results, error, asm_count, log0, waiting>>

--------------------------------------------------------------------------
\* Values

NoWorker == -1
MainProc == 0
Procs == MainProc .. MaxThreads

ItemAt(p) == [id |-> 10 + p]

Datasets == { [p \in 1..n |-> ItemAt(p)] : n \in 0..MaxLen }

NoError == [type |-> "none", pos |-> 0, attempts |-> 0]
Unset == [kind |-> "unset", id |-> 0]
NoneResult == [kind |-> "None", id |-> 0]
RecordOf(item) == [kind |-> "record", id |-> item.id]

\* A process: where it is in process_item (pc), the rest of its chunk with the
\* current item first (todo), get_completion's loop counter (attempt), the
\* number of completion() calls the running or just ended get_completion call
\* has made (calls), what the last of them answered (last), processed_result
\* (res) and the exception in flight (exc).
IdleWorker == [pc |-> "idle", todo |-> <<>>, attempt |-> 0, calls |-> 0,
               last |-> "none", res |-> Unset, exc |-> NoError]
StartWorker(todo) == [pc |-> "assemble", todo |-> todo, attempt |-> 0,
                      calls |-> 0, last |-> "none", res |-> Unset,
                      exc |-> NoError]

FreshGen == [started |-> FALSE, from_log |-> FALSE, exist_items |-> <<>>,
             pos |-> 1, done |-> FALSE]

\* A line of the log that is no record: what an interrupted writer leaves.
BadLine == [id |-> 0, part |-> "head"]

--------------------------------------------------------------------------
\* jsonl_utils / jsonlines: the log as a sequence of records

\* Every record of the log is whole: a head directly followed by its tail.
WellFormed(l) ==
    /\ Len(l) % 2 = 0
    /\ \A k \in 1..(Len(l) \div 2) :
          /\ l[2*k - 1].part = "head"
          /\ l[2*k].part = "tail"
          /\ l[2*k - 1].id = l[2*k].id

\* The identifier of each record read from a well-formed log, in file order.
LogIds(l) == [k \in 1..(Len(l) \div 2) |-> l[2*k - 1].id]

SeqRange(s) == { s[k] : k \in 1..Len(s) }

--------------------------------------------------------------------------
\* batch_utils.enumerate_resume, a generator: nothing of its body runs before
\* the first next() on it.

\* Mutant of ScanFails: lines that are no record are passed over.
ScanFails_Never == FALSE

\* Reading the existing log fails (jsonlines raises) when a line is no record.
ScanFails == exists /\ ~WellFormed(log)

\* The first resumption: the existence test and, if the file exists, the
\* whole read of the log into exist_items.
GenBegin(g) ==
    IF ~exists
    THEN [g EXCEPT !.started = TRUE, !.from_log = FALSE]
    ELSE [g EXCEPT !.started = TRUE, !.from_log = TRUE,
                   !.exist_items = LogIds(log)]

\* Mutant of Resume: the file is tested and read again at every next().
Resume_Rescan(g) == GenBegin(g)

\* next() on the generator: its body runs from the top the first time only.
Resume(g) == IF g.started THEN g ELSE GenBegin(g)

\* Mutant of Skip: as many leading items are skipped as the log has records.
Skip_ByCount(g, p) == g.from_log /\ p <= Len(g.exist_items)

\* Mutant of Skip: the dataset index is looked up instead of the identifier.
Skip_ByIndex(g, p) == g.from_log /\ (p - 1) \in SeqRange(g.exist_items)

\* "if item[id_key] in exist_items: continue"; the first branch never skips.
Skip(g, p) == g.from_log /\ dataset[p].id \in SeqRange(g.exist_items)

\* Mutant of Yield: the pairs are numbered as they are yielded.
Yield_Renumbered(p) == [index |-> Len(pending), item |-> dataset[p]]

\* What enumerate() pairs with the item at position p.
Yield(p) == [index |-> p - 1, item |-> dataset[p]]

\* The position of the next item the generator yields, 0 when it is exhausted.
NextYield(g) ==
    LET cand == { p \in g.pos..Len(dataset) : ~Skip(g, p) }
    IN  IF cand = {} THEN 0
        ELSE CHOOSE p \in cand : \A q \in cand : p <= q

Exhausted(g) == [g EXCEPT !.pos = Len(dataset) + 1, !.done = TRUE]

\* list(generator): everything a started generator still yields.
RECURSIVE DrainFrom(_)
DrainFrom(g) ==
    LET p == NextYield(g)
    IN  IF p = 0 THEN <<>>
        ELSE <<Yield(p)>> \o DrainFrom([g EXCEPT !.pos = p + 1])

--------------------------------------------------------------------------
\* multiprocessing.Pool.starmap as batch_run uses it

ChunkSize(len, procs) ==
    LET q == len \div (procs * PoolChunkFactor)
        r == len % (procs * PoolChunkFactor)
    IN  IF len = 0 THEN 0 ELSE IF r # 0 THEN q + 1 ELSE q

RECURSIVE Chunked(_, _)
Chunked(s, size) ==
    IF s = <<>> THEN <<>>
    ELSE IF Len(s) <= size THEN <<s>>
    ELSE <<SubSeq(s, 1, size)>> \o Chunked(SubSeq(s, size + 1, Len(s)), size)

--------------------------------------------------------------------------
\* The callbacks and the remote service: what they may do for an item

AssembleOutcomes(p) == IF p \in faulty THEN {"ok", "raise"} ELSE {"ok"}
RemoteOutcomes(p) ==
    IF p \in faulty THEN {"ok", "rate_limit", "timeout", "other"} ELSE {"ok"}
PostOutcomes(p) == IF p \in faulty THEN {"record", "none", "raise"} ELSE {"record"}

--------------------------------------------------------------------------
\* Init: before the first batch_run call

\* What does not depend on the inputs.
InitRun ==
    /\ lock = NoWorker
    /\ status = "idle"
    /\ runs = 0
    /\ num_threads = 1
    /\ gen = FreshGen
    /\ pending = <<>>
    /\ taskqueue = <<>>
    /\ number_left = 0
    /\ workers = [w \in Procs |-> IdleWorker]
    /\ results = [p \in 1..Len(dataset) |-> Unset]
    /\ error = NoError
    /\ asm_count = [p \in 1..Len(dataset) |-> 0]
    /\ log0 = log
    /\ waiting = <<>>

\* Any dataset of up to MaxLen items, every callback and remote call free to
\* fail; the output file absent, empty or holding a broken line.
Init ==
    /\ dataset \in Datasets
    /\ max_attempts \in -1..MaxAttempts
    /\ faulty = 1..Len(dataset)
    /\ \/ exists = FALSE /\ log = <<>>
       \/ exists = TRUE /\ log = <<>>
       \/ exists = TRUE /\ log = <<BadLine>>
    /\ InitRun

\* Any dataset of up to MaxLen items, every callback, remote call and write
\* free to fail, one attempt per remote call, no output file yet.
InitFair ==
    /\ dataset \in Datasets
    /\ max_attempts = 1
    /\ faulty = 1..Len(dataset)
    /\ exists = FALSE /\ log = <<>>
    /\ InitRun

\* The smallest dataset a pool of two cuts into chunks of more than one item
\* (more than 4 * 2 items), with at most one item whose callbacks may fail.
PoolLen == PoolChunkFactor * 2 + 1

InitPool ==
    /\ dataset = [p \in 1..PoolLen |-> ItemAt(p)]
    /\ max_attempts = 1
    /\ faulty \in { f \in SUBSET (1..PoolLen) : Cardinality(f) <= 1 }
    /\ exists = FALSE /\ log = <<>>
    /\ InitRun

--------------------------------------------------------------------------
\* batch_run

\* batch_run(dataset, n, ...) is called: lines 76-77 make the generator object.
StartRun(n) ==
    /\ status \in {"idle", "returned", "raised"}
    /\ runs < MaxRuns
    /\ runs' = runs + 1
    /\ num_threads' = n
    /\ status' = IF n > 1 THEN "par" ELSE "seq"
    /\ gen' = FreshGen
    /\ pending' = <<>>
    /\ taskqueue' = <<>>
    /\ number_left' = 0
    /\ workers' = [w \in Procs |-> IdleWorker]
    /\ results' = [p \in 1..Len(dataset) |-> Unset]
    /\ error' = NoError
    /\ asm_count' = [p \in 1..Len(dataset) |-> 0]
    /\ log0' = log
    /\ waiting' = <<>>
    /\ UNCHANGED <<dataset, max_attempts, faulty, exists, log, lock>>

ScanError == [type |-> "InvalidLineError", pos |-> 0, attempts |-> 0]

\* Mutant of MainReady: the next item is started without waiting for the call
\* of process_item on the previous one to return.
MainReady_NoWait == TRUE

\* A list comprehension evaluates process_item(...) to its end before it asks
\* the generator for the next pair.
MainReady == workers[MainProc].pc = "idle"

\* The sequential list comprehension asks the generator for its next pair and
\* calls process_item on it; when the generator is exhausted batch_run returns.
SeqNext ==
    /\ status = "seq"
    /\ MainReady
    /\ IF ~gen.started /\ ScanFails
       THEN /\ status' = "raised"
            /\ error' = ScanError
            /\ UNCHANGED <<gen, pending, workers>>
       ELSE LET g == Resume(gen)
                p == NextYield(g)
            IN  IF p = 0
                THEN /\ gen' = Exhausted(g)
                     /\ status' = "returned"
                     /\ UNCHANGED <<pending, workers, error>>
                ELSE /\ gen' = [g EXCEPT !.pos = p + 1]
                     /\ pending' = Append(pending, Yield(p))
                     /\ workers' = [workers EXCEPT
                                      ![MainProc] = StartWorker(<<Yield(p)>>)]
                     /\ UNCHANGED <<status, error>>
    /\ UNCHANGED <<waiting, dataset, max_attempts, faulty, exists, log, lock, runs,
                   num_threads, taskqueue, number_left, results, asm_count, log0>>

\* The parallel branch: the argument list is built from the whole generator,
\* then starmap cuts it into chunks and queues them.
PoolMap ==
    /\ status = "par"
    /\ IF ScanFails
       THEN /\ status' = "raised"
            /\ error' = ScanError
            /\ UNCHANGED <<gen, pending, taskqueue, number_left>>
       ELSE LET g == Resume(gen)
                items == DrainFrom(g)
                chunks == Chunked(items, ChunkSize(Len(items), num_threads))
            IN  /\ gen' = Exhausted(g)
                /\ pending' = items
                /\ taskqueue' = chunks
                /\ number_left' = Len(chunks)
                /\ status' = "pool"
                /\ UNCHANGED error
    /\ UNCHANGED <<waiting, dataset, max_attempts, faulty, exists, log, lock, runs,
                   num_threads, workers, results, asm_count, log0>>

\* A pool worker takes the next chunk from the queue.
TakeTask(w) ==
    /\ status = "pool"
    /\ w \in 1..num_threads
    /\ workers[w].pc = "idle"
    /\ taskqueue # <<>>
    /\ workers' = [workers EXCEPT ![w] = StartWorker(Head(taskqueue))]
    /\ taskqueue' = Tail(taskqueue)
    /\ UNCHANGED <<waiting, dataset, max_attempts, faulty, exists, log, lock, status,
                   runs, num_threads, gen, pending, number_left, results,
                   error, asm_count, log0>>

\* Mutant of PoolJoin: the result is ready as soon as one chunk has failed.
PoolJoin_FirstError ==
    /\ status = "pool"
    /\ number_left = 0 \/ error # NoError
    /\ status' = IF error = NoError THEN "returned" ELSE "raised"
    /\ UNCHANGED <<waiting, dataset, max_attempts, faulty, exists, log, lock, runs,
                   num_threads, gen, pending, taskqueue, number_left, workers,
                   results, error, asm_count, log0>>

\* Mutant of PoolJoin: the call returns once every chunk has been handed out
\* (map_async without waiting for the result).
PoolJoin_QueueEmpty ==
    /\ status = "pool"
    /\ taskqueue = <<>>
    /\ status' = IF error = NoError THEN "returned" ELSE "raised"
    /\ UNCHANGED <<waiting, dataset, max_attempts, faulty, exists, log, lock, runs,
                   num_threads, gen, pending, taskqueue, number_left, workers,
                   results, error, asm_count, log0>>

\* starmap's result is ready once every chunk is done: the list of results,
\* or the first exception a chunk ended with.
PoolJoin ==
    /\ status = "pool"
    /\ number_left = 0
    /\ status' = IF error = NoError THEN "returned" ELSE "raised"
    /\ UNCHANGED <<waiting, dataset, max_attempts, faulty, exists, log, lock, runs,
                   num_threads, gen, pending, taskqueue, number_left, workers,
                   results, error, asm_count, log0>>

\* line 114, "return results": what process_item returned for each pair the
\* generator yielded, in that order.
ReturnValue == [k \in 1..Len(pending) |-> results[pending[k].index + 1]]

--------------------------------------------------------------------------
\* process_item, run by the main process (sequential) or a pool worker

Cur(w) == Head(workers[w].todo)
Pos(w) == Cur(w).index + 1

\* An exception is raised inside process_item.
Raise(w, err) ==
    /\ workers' = [workers EXCEPT ![w].pc = "raise", ![w].exc = err]
    /\ UNCHANGED <<status, error, number_left, results>>

\* process_item returns res; the process goes on with the rest of its chunk.
Complete(w, res) ==
    /\ results' = [results EXCEPT ![Pos(w)] = res]
    /\ LET rest == Tail(workers[w].todo)
       IN  IF rest = <<>>
           THEN /\ workers' = [workers EXCEPT ![w] = IdleWorker]
                /\ number_left' = IF w = MainProc THEN number_left
                                  ELSE number_left - 1
           ELSE /\ workers' = [workers EXCEPT ![w] = StartWorker(rest)]
                /\ UNCHANGED number_left
    /\ UNCHANGED <<status, error>>

\* A step inside process_item that stays inside it.
Goto(w, pc) ==
    /\ workers' = [workers EXCEPT ![w].pc = pc]
    /\ UNCHANGED <<status, error, number_left, results>>

\* line 42: assembled_input = assemble_func(item)
Assemble(w) ==
    /\ workers[w].pc = "assemble"
    /\ asm_count' = [asm_count EXCEPT ![Pos(w)] = @ + 1]
    /\ \E out \in AssembleOutcomes(Pos(w)) :
          IF out = "ok"
          THEN Goto(w, "call")
          ELSE Raise(w, [type |-> "AssembleError", pos |-> Pos(w), attempts |-> 0])
    /\ UNCHANGED <<waiting, dataset, max_attempts, faulty, exists, log, lock, runs,
                   num_threads, gen, pending, taskqueue, log0>>

\* Mutant of MoreAttempts: "while True" instead of the bounded loop.
MoreAttempts_Unbounded(w) == TRUE

\* Mutant of MoreAttempts: one iteration too many.
MoreAttempts_OffByOne(w) == workers[w].attempt <= max_attempts

\* "for _ in range(max_attempts)": another iteration is left.
MoreAttempts(w) == workers[w].attempt < max_attempts

\* Mutant of Retryable: every failure is answered with "continue".
Retryable_All(out) == out # "ok"

\* The failures get_completion answers with "continue".
Retryable(out) == out \in {"rate_limit", "timeout"}

\* line 43, run_func -> get_completion: one iteration of the retry loop, that
\* is one call of litellm's completion().  A response is returned, a rate
\* limit or timeout failure goes to the next iteration, anything else is
\* raised again.
RemoteAttempt(w) ==
    /\ workers[w].pc = "call"
    /\ MoreAttempts(w)
    /\ \E out \in RemoteOutcomes(Pos(w)) :
        LET n == workers[w].calls + 1
        IN  IF out = "ok"
            THEN workers' = [workers EXCEPT ![w].pc = "post", ![w].calls = n,
                                            ![w].last = out]
            ELSE IF Retryable(out)
            THEN workers' = [workers EXCEPT ![w].attempt = @ + 1,
                                            ![w].calls = n, ![w].last = out]
            ELSE workers' = [workers EXCEPT
                               ![w].pc = "raise", ![w].calls = n,
                               ![w].last = out,
                               ![w].exc = [type |-> "RemoteError",
                                           pos |-> Pos(w), attempts |-> 0]]
    /\ UNCHANGED <<waiting, dataset, max_attempts, faulty, exists, log, lock, status,
                   runs, num_threads, gen, pending, taskqueue, number_left,
                   results, error, asm_count, log0>>

\* lines 58-60 of get_completion: the loop ran out, CompletionFailedException
\* with the completion identifier and max_attempts in its message.
RaiseExhausted(w) ==
    /\ workers[w].pc = "call"
    /\ ~MoreAttempts(w)
    /\ Raise(w, [type |-> "CompletionFailedException", pos |-> Pos(w),
                 attempts |-> max_attempts])
    /\ UNCHANGED <<waiting, dataset, max_attempts, faulty, exists, log, lock, runs,
                   num_threads, gen, pending, taskqueue, asm_count, log0>>

\* Mutant of ShouldWrite: the test is left out.
ShouldWrite_Always(r) == TRUE

\* line 46: "if processed_result is not None"
ShouldWrite(r) == r # NoneResult

\* The call of run_func is over: get_completion's locals are gone.
CallOver(wk) == [wk EXCEPT !.attempt = 0, !.calls = 0, !.last = "none"]

\* lines 44-46: processed_result = process_result_func(...), and the test
\* "if processed_result is not None": a record goes on to the lock, None
\* is returned at once (line 52).
PostProcess(w) ==
    /\ workers[w].pc = "post"
    /\ \E out \in PostOutcomes(Pos(w)) :
          IF out = "raise"
          THEN /\ workers' = [workers EXCEPT ![w] =
                      [CallOver(@) EXCEPT
                          !.pc = "raise",
                          !.exc = [type |-> "PostProcessError", pos |-> Pos(w),
                                   attempts |-> 0]]]
               /\ UNCHANGED <<status, error, number_left, results>>
          ELSE LET r == IF out = "record" THEN RecordOf(Cur(w).item)
                        ELSE NoneResult
               IN  IF ShouldWrite(r)
                   THEN /\ workers' = [workers EXCEPT ![w] =
                               [CallOver(@) EXCEPT !.pc = "lock", !.res = r]]
                        /\ UNCHANGED <<status, error, number_left, results>>
                   ELSE Complete(w, r)
    /\ UNCHANGED <<waiting, dataset, max_attempts, faulty, exists, log, lock, runs,
                   num_threads, gen, pending, taskqueue, asm_count, log0>>

\* The exception leaves process_item.  In the main process nothing catches
\* it and it leaves batch_run; in a pool worker it ends the worker's chunk
\* (the rest of the chunk is dropped) and the pool keeps the first one.
Propagate(w) ==
    /\ workers[w].pc = "raise"
    /\ error' = IF error = NoError THEN workers[w].exc ELSE error
    /\ workers' = [workers EXCEPT ![w] = IdleWorker]
    /\ status' = IF w = MainProc THEN "raised" ELSE status
    /\ number_left' = IF w = MainProc THEN number_left ELSE number_left - 1
    /\ UNCHANGED <<waiting, dataset, max_attempts, faulty, exists, log, lock, runs,
                   num_threads, gen, pending, taskqueue, results, asm_count,
                   log0>>

\* Mutant of CanAcquire: every process locks a file of its own.
CanAcquire_Always(w) == TRUE

\* FileLock(output_path + ".lock") can be entered when nobody holds it.
CanAcquire(w) == lock = NoWorker

\* What write_jsonl may do once the lock is held: write the record, fail to
\* open the file, or open it (which creates it) and fail to serialise the
\* record.  All of it happens before a byte of the line is written.
WriteOutcomes(p) ==
    IF p \in faulty THEN {"ok", "open_error", "dump_error"} ELSE {"ok"}

\* The process is at the lock from now on, behind those already there.
Arrive(w) == IF w \in SeqRange(waiting) THEN waiting ELSE Append(waiting, w)

\* The process is through with the lock.
Leave(w) == SelectSeq(waiting, LAMBDA x : x # w)

\* Inside the with block: jsonlines.open(path, mode) and writer.write(item).
\* "old" is what the open leaves of the file: all of it in mode "a".
OpenAndWrite(w, old) ==
    /\ lock' = w
    /\ waiting' = Arrive(w)
    /\ \E out \in WriteOutcomes(Pos(w)) :
          IF out = "ok"
          THEN /\ exists' = TRUE
               /\ log' = Append(old, [id |-> workers[w].res.id, part |-> "head"])
               /\ Goto(w, "write")
          ELSE /\ exists' = (exists \/ out = "dump_error")
               /\ log' = log
               /\ Goto(w, "write_fail")
    /\ UNCHANGED <<dataset, max_attempts, faulty, runs, num_threads,
                   gen, pending, taskqueue, asm_count, log0>>

\* Mutant of WriteHead: the record is written without taking the lock.
WriteHead_Unlocked(w) ==
    /\ workers[w].pc = "lock"
    /\ OpenAndWrite(w, log)

\* Mutant of WriteHead: write_jsonl is called with its default append=False,
\* mode "w".
WriteHead_Truncate(w) ==
    /\ workers[w].pc = "lock"
    /\ CanAcquire(w)
    /\ OpenAndWrite(w, <<>>)

\* lines 47-50: the lock is taken, write_jsonl(..., append=True) opens the
\* file in mode "a", which creates it, and the first part of the record's
\* line reaches the file; or write_jsonl fails.
WriteHead(w) ==
    /\ workers[w].pc = "lock"
    /\ CanAcquire(w)
    /\ OpenAndWrite(w, log)

\* FileLock.acquire polls: a process that finds the lock held sleeps and
\* tries again later.  Nothing queues the processes.
PollBusy(w) ==
    /\ workers[w].pc = "lock"
    /\ ~CanAcquire(w)
    /\ w \notin SeqRange(waiting)
    /\ waiting' = Arrive(w)
    /\ UNCHANGED <<dataset, max_attempts, faulty, exists, log, lock, status,
                   runs, num_threads, gen, pending, taskqueue, number_left,
                   workers, results, error, asm_count, log0>>

\* Mutant of WriteTail: the lock is not released after the write.
WriteTail_KeepsLock(w) ==
    /\ workers[w].pc = "write"
    /\ log' = Append(log, [id |-> workers[w].res.id, part |-> "tail"])
    /\ waiting' = Leave(w)
    /\ Complete(w, workers[w].res)
    /\ UNCHANGED <<lock, dataset, max_attempts, faulty, exists, runs,
                   num_threads, gen, pending, taskqueue, asm_count, log0>>

\* The rest of the line is written, the file closed, the lock released
\* (end of the with block) and process_item returns the record (line 52).
WriteTail(w) ==
    /\ workers[w].pc = "write"
    /\ log' = Append(log, [id |-> workers[w].res.id, part |-> "tail"])
    /\ lock' = NoWorker
    /\ waiting' = Leave(w)
    /\ Complete(w, workers[w].res)
    /\ UNCHANGED <<dataset, max_attempts, faulty, exists, runs, num_threads,
                   gen, pending, taskqueue, asm_count, log0>>

\* Mutant of WriteFailed: the lock is released only after a successful write.
WriteFailed_KeepsLock(w) ==
    /\ workers[w].pc = "write_fail"
    /\ waiting' = Leave(w)
    /\ Raise(w, [type |-> "WriteError", pos |-> Pos(w), attempts |-> 0])
    /\ UNCHANGED <<lock, dataset, max_attempts, faulty, exists, log, runs,
                   num_threads, gen, pending, taskqueue, asm_count, log0>>

\* write_jsonl raised inside the with block: FileLock's __exit__ releases the
\* lock and the exception goes on out of process_item.
WriteFailed(w) ==
    /\ workers[w].pc = "write_fail"
    /\ lock' = NoWorker
    /\ waiting' = Leave(w)
    /\ Raise(w, [type |-> "WriteError", pos |-> Pos(w), attempts |-> 0])
    /\ UNCHANGED <<dataset, max_attempts, faulty, exists, log, runs,
                   num_threads, gen, pending, taskqueue, asm_count, log0>>

--------------------------------------------------------------------------
Next ==
    \/ \E n \in 0..MaxThreads : StartRun(n)
    \/ SeqNext
    \/ PoolMap
    \/ PoolJoin
    \/ \E w \in Procs : TakeTask(w)
    \/ \E w \in Procs : Assemble(w)
    \/ \E w \in Procs : RemoteAttempt(w)
    \/ \E w \in Procs : RaiseExhausted(w)
    \/ \E w \in Procs : PostProcess(w)
    \/ \E w \in Procs : Propagate(w)
    \/ \E w \in Procs : WriteHead(w)
    \/ \E w \in Procs : PollBusy(w)
    \/ \E w \in Procs : WriteTail(w)
    \/ \E w \in Procs : WriteFailed(w)

Spec == Init /\ [][Next]_vars

\* Every process that can take a step eventually takes one: the operating
\* system schedules all of them and a sleeping FileLock.acquire wakes up.
FairSpec == InitFair /\ [][Next]_vars /\ WF_vars(Next)

SpecPool == InitPool /\ [][Next]_vars

--------------------------------------------------------------------------
\* What the properties below talk about

PosOf(pair) == pair.index + 1

\* The pieces written to the log since the current batch_run call started.
Appended == SubSeq(log, Len(log0) + 1, Len(log))

\* The identifiers with a record in the log when the call started.
DoneIds0 == IF WellFormed(log0) THEN SeqRange(LogIds(log0)) ELSE {}

CountId(l, id) == Cardinality({ k \in 1..Len(l) : l[k].id = id })

\* The processes inside the write section of process_item.
Writing == { w \in Procs : workers[w].pc \in {"write", "write_fail"} }

\* The processes that have written the first part of their record.
MidRecord == { w \in Procs : workers[w].pc = "write" }

IsPrefix(a, b) == Len(a) <= Len(b) /\ SubSeq(b, 1, Len(a)) = a

PendingIds == { pending[k].item.id : k \in 1..Len(pending) }

\* The dataset position of the item with this identifier.
IdPos(id) == CHOOSE p \in 1..Len(dataset) : dataset[p].id = id

ItemErrors == {"AssembleError", "RemoteError", "CompletionFailedException",
               "PostProcessError"}

\* The pairs of the dataset whose identifier had no record in the log when
\* the call started, in dataset order, each with its dataset index.
ExpectedPairs ==
    LET all == [p \in 1..Len(dataset) |-> [index |-> p - 1, item |-> dataset[p]]]
        Keep(pr) == pr.item.id \notin DoneIds0
    IN  SelectSeq(all, Keep)

--------------------------------------------------------------------------
\* C1: in a batch_run call against a log that already holds records, no item
\* whose identifier is in the log at the start of the call is assembled or
\* handed to a process, and the log never gets another record for it.
C1_ResumeNeverReprocesses ==
    \A p \in 1..Len(dataset) :
        dataset[p].id \in DoneIds0 =>
            /\ asm_count[p] = 0
            /\ \A w \in Procs : \A k \in 1..Len(workers[w].todo) :
                   PosOf(workers[w].todo[k]) # p
            /\ CountId(log, dataset[p].id) = CountId(log0, dataset[p].id)

\* A second call has returned after skipping one item and appending another.
C1_Witness ==
    /\ runs = 2
    /\ status = "returned"
    /\ \E p \in 1..Len(dataset) : dataset[p].id \in DoneIds0
    /\ \E q \in 1..Len(dataset) : asm_count[q] = 1 /\ results[q].kind = "record"

\* C2: what enumerate_resume has yielded is always a prefix of, and once it
\* is exhausted exactly, the pairs (i, dataset[i]) whose identifier is not in
\* the log, in increasing i with the dataset index i; all pairs when there is
\* no log.
C2_ResumeYieldsUnprocessedInOrder ==
    WellFormed(log0) =>
        /\ IsPrefix(pending, ExpectedPairs)
        /\ gen.done => pending = ExpectedPairs

\* The generator skipped the first item and yielded the second with index 1.
C2_Witness ==
    /\ gen.done
    /\ log0 # <<>>
    /\ pending # <<>>
    /\ pending[1].index = 1

\* C3: at most one process is inside the locked write section, it holds the
\* lock, and the log is a sequence of whole records followed at most by the
\* first part of the record that process is writing.
C3_AppendsSerialize ==
    /\ Cardinality(Writing) <= 1
    /\ \A w \in Writing : lock = w
    /\ WellFormed(log0) =>
          IF MidRecord = {}
          THEN WellFormed(log)
          ELSE /\ log # <<>>
               /\ WellFormed(SubSeq(log, 1, Len(log) - 1))
               /\ log[Len(log)].part = "head"

\* One worker is writing its record while another waits for the lock.
C3_Witness ==
    \E w1, w2 \in Procs :
        /\ w1 # w2
        /\ workers[w1].pc = "write"
        /\ workers[w2].pc = "lock"

\* C4: when batch_run returns and no pending item produced None, the pieces
\* appended by the call are whole records, one per pending item, and their
\* identifiers are exactly the pending identifiers.
C4_OneRecordPerPendingItem ==
    (/\ status = "returned"
     /\ \A k \in 1..Len(pending) : results[PosOf(pending[k])].kind # "None")
    => /\ WellFormed(Appended)
       /\ Len(LogIds(Appended)) = Len(pending)
       /\ SeqRange(LogIds(Appended)) = PendingIds

\* A parallel call over two pending items has returned two records.
C4_Witness ==
    /\ status = "returned"
    /\ num_threads = 2
    /\ Len(pending) = 2
    /\ \A k \in 1..Len(pending) : results[PosOf(pending[k])].kind = "record"

\* C5: while get_completion is in its loop every completion() call so far
\* failed with a rate limit or a timeout; once max_attempts calls have failed
\* so, its next step raises CompletionFailedException naming the call and
\* max_attempts, with no further call.  (A count of calls: max_attempts >= 0.)
C5_ExhaustionAfterMaxAttempts ==
    /\ [](\A w \in Procs : max_attempts >= 0 =>
            /\ workers[w].pc = "call" =>
                  /\ workers[w].calls = workers[w].attempt
                  /\ workers[w].calls <= max_attempts
                  /\ workers[w].last \in {"none", "rate_limit", "timeout"}
            /\ (workers[w].pc = "raise"
                /\ workers[w].exc.type = "CompletionFailedException") =>
                  /\ workers[w].calls = max_attempts
                  /\ workers[w].exc.attempts = max_attempts
                  /\ workers[w].exc.pos = Pos(w))
    /\ [][\A w \in Procs :
            (/\ workers[w].pc = "call"
             /\ workers[w].calls = max_attempts
             /\ workers'[w] # workers[w])
            => /\ workers'[w].pc = "raise"
               /\ workers'[w].exc.type = "CompletionFailedException"
               /\ workers'[w].calls = max_attempts]_vars

\* Two calls failed with retryable failures and the exhaustion error is raised.
C5_Witness ==
    \E w \in Procs :
        /\ workers[w].pc = "raise"
        /\ workers[w].exc.type = "CompletionFailedException"
        /\ workers[w].calls = 2
        /\ workers[w].last \in {"rate_limit", "timeout"}

\* C6: when a completion() call fails with any other failure, get_completion
\* raises that error at once: the call that failed was the last one (calls
\* made = earlier retryable failures + 1) and the error is not the exhaustion
\* error.
C6_FatalFailureNotRetried ==
    \A w \in Procs :
        workers[w].last = "other" =>
            /\ workers[w].pc = "raise"
            /\ workers[w].exc.type = "RemoteError"
            /\ workers[w].exc.pos = Pos(w)
            /\ workers[w].calls = workers[w].attempt + 1

\* A fatal failure on the second attempt, after one retry.
C6_Witness ==
    \E w \in Procs :
        /\ workers[w].last = "other"
        /\ workers[w].attempt = 1

\* C7: the pieces appended by the call are one whole record for every item
\* process_item returned a record for and nothing for an item it returned
\* None for; a call that only produced None leaves the log as it was and does
\* not create it; the returned list has an entry, None included, for every
\* pending item.
C7_AppendOnlyForRecords ==
    LET recs == { p \in 1..Len(dataset) : results[p].kind = "record" }
        nones == { p \in 1..Len(dataset) : results[p].kind = "None" }
    IN  /\ \A p \in recs : CountId(Appended, dataset[p].id) = 2
        /\ \A p \in nones : CountId(Appended, dataset[p].id) = 0
        /\ Writing = {} => Len(Appended) = 2 * Cardinality(recs)
        /\ (recs = {} /\ Writing = {}) => log = log0
        /\ (status = "returned" /\ recs = {} /\ ~gen.from_log) => ~exists
        /\ status = "returned" =>
              \A k \in 1..Len(pending) : results[PosOf(pending[k])] # Unset

\* A call returned with a None entry in its results and no log file created.
C7_Witness ==
    /\ status = "returned"
    /\ ~exists
    /\ \E k \in 1..Len(pending) : results[PosOf(pending[k])] = NoneResult

\* C8: when a parallel batch_run call has ended, by returning or raising, every
\* pending item has been handed to assemble exactly once.
C8_EveryPendingItemAttemptedOnce ==
    (num_threads > 1 /\ gen.done /\ status \in {"returned", "raised"})
    => \A k \in 1..Len(pending) : asm_count[PosOf(pending[k])] = 1

\* C9: when batch_run ends with the exhaustion error of one item, every item
\* that was pending at the start of the call has been processed.
C9_ExhaustionDoesNotCrashBatch ==
    (status = "raised" /\ error.type = "CompletionFailedException")
    => \A p \in 1..Len(dataset) :
           dataset[p].id \notin DoneIds0 => asm_count[p] = 1

\* C10: after batch_run has ended with an item's exception nobody is writing,
\* the lock is free, and the log is whole records, the appended ones being
\* the records of items process_item returned a record for.
C10_AbortLeavesLogConsistent ==
    (status = "raised" /\ error.type \in ItemErrors)
    => /\ Writing = {}
       /\ lock = NoWorker
       /\ WellFormed(log)
       /\ WellFormed(Appended)
       /\ \A id \in SeqRange(LogIds(Appended)) :
              \E p \in 1..Len(dataset) :
                  dataset[p].id = id /\ results[p].kind = "record"

\* A parallel call was aborted by one item after another item was appended.
C10_Witness ==
    /\ status = "raised"
    /\ error.type \in ItemErrors
    /\ num_threads > 1
    /\ Appended # <<>>

\* C11: a batch_run call against an existing log that holds a line that is no
\* record ends with the error of the scan and with nothing else done: the
\* generator yields no pair, no item is assembled or handed to a process, no
\* result is set, the log stays as it was, and the call never returns.
C11_MalformedLogAbortsRun ==
    (runs >= 1 /\ exists /\ ~WellFormed(log0)) =>
        /\ status \in {"seq", "par", "raised"}
        /\ status = "raised" => error = ScanError
        /\ pending = <<>>
        /\ \A p \in 1..Len(dataset) : asm_count[p] = 0 /\ results[p] = Unset
        /\ \A w \in Procs : workers[w] = IdleWorker
        /\ taskqueue = <<>>
        /\ log = log0

\* A parallel call over two items, the second call against the broken log,
\* has ended with the error of the scan.
C11_Witness ==
    /\ runs = 2
    /\ num_threads = 2
    /\ Len(dataset) = 2
    /\ ~WellFormed(log0)
    /\ status = "raised"
    /\ error = ScanError

\* C12: a process holds the lock only between taking it for its append and
\* the end of that append: a process that is in assemble, in the retry loop
\* of the remote call, in post-process, raising, idle or still at the lock
\* does not hold it, so the lock is free whenever nobody is appending.
C12_LockHeldOnlyForAppend ==
    /\ \A w \in Procs : w \notin Writing => lock # w
    /\ Writing = {} => lock = NoWorker

\* One worker is retrying its remote call while another holds the lock for
\* its append.
C12_Witness ==
    \E w1, w2 \in Procs :
        /\ w1 # w2
        /\ workers[w1].pc = "call"
        /\ workers[w1].attempt >= 1
        /\ workers[w2].pc = "write"
        /\ lock = w2

\* C13: the lock is free after every append attempt, the failed ones too: a
\* process that leaves the write section, by returning or by an exception of
\* write_jsonl, leaves the lock free, and no process stays at the lock for
\* ever: each one waiting there gets it eventually.
C13_LockReleasedOnEveryExit ==
    /\ [][\A w \in Procs :
            (w \in Writing /\ workers'[w].pc \notin {"write", "write_fail"})
            => lock' = NoWorker]_vars
    /\ [](\A w \in Procs :
            (workers[w].pc = "raise" /\ workers[w].exc.type = "WriteError")
            => lock # w)
    /\ \A w \in Procs : []<>(workers[w].pc # "lock")

\* A worker's write has failed while another worker, which found the lock
\* held, waits for it; the lock is free.
C13_Witness ==
    \E w1, w2 \in Procs :
        /\ w1 # w2
        /\ workers[w1].pc = "raise"
        /\ workers[w1].exc.type = "WriteError"
        /\ workers[w2].pc = "lock"
        /\ w2 \in SeqRange(waiting)
        /\ lock = NoWorker

\* C14: in a call with num_threads <= 1 only the main process works, on one
\* item at a time; the pairs are taken in dataset order; process_item has
\* returned for every pair taken before the latest one; and the pieces the
\* call appended are in dataset order.
C14_SequentialInOrder ==
    (runs >= 1 /\ num_threads <= 1) =>
        /\ \A w \in Procs \ {MainProc} : workers[w] = IdleWorker
        /\ Len(workers[MainProc].todo) <= 1
        /\ \A j, k \in 1..Len(pending) :
              j < k => pending[j].index < pending[k].index
        /\ \A k \in 1..Len(pending) :
              k < Len(pending) =>
                  /\ results[PosOf(pending[k])] # Unset
                  /\ asm_count[PosOf(pending[k])] = 1
        /\ \A i, j \in 1..Len(Appended) :
              i < j => IdPos(Appended[i].id) <= IdPos(Appended[j].id)

\* A sequential call has returned after appending the records of two items.
C14_Witness ==
    /\ num_threads <= 1
    /\ status = "returned"
    /\ Len(pending) = 2
    /\ Len(Appended) = 4
    /\ Appended[1].id # Appended[3].id

\* C15: records reach the log in the order their processes came to the lock:
\* the process that is writing its record is the one that has been at the
\* lock the longest.
C15_FirstComeFirstServed ==
    \A w \in MidRecord : waiting # <<>> /\ Head(waiting) = w

\* C16: when batch_run has returned, the generator is exhausted, no chunk is
\* queued or unfinished, every process is idle, nobody is at the lock or
\* holds it, the appended pieces are whole records, and the returned list has
\* one entry, a record or None, for each yielded pair and for nothing else.
C16_ReturnsAfterAllDone ==
    status = "returned" =>
        /\ gen.done
        /\ taskqueue = <<>>
        /\ number_left = 0
        /\ \A w \in Procs : workers[w] = IdleWorker
        /\ lock = NoWorker
        /\ waiting = <<>>
        /\ WellFormed(Appended)
        /\ Len(ReturnValue) = Len(pending)
        /\ \A k \in 1..Len(ReturnValue) :
              \/ ReturnValue[k] = NoneResult
              \/ ReturnValue[k] = RecordOf(pending[k].item)
        /\ \A p \in 1..Len(dataset) :
              results[p] # Unset <=> \E k \in 1..Len(pending) : PosOf(pending[k]) = p

\* A parallel call has returned a record for one item and None for the other.
C16_Witness ==
    /\ status = "returned"
    /\ num_threads = 2
    /\ Len(ReturnValue) = 2
    /\ ReturnValue[1].kind = "record"
    /\ ReturnValue[2] = NoneResult

\* C17: no step of any call, sequential or parallel, finished or aborted,
\* changes what is already in the log or removes the file: the log before
\* the step is a prefix of the log after it, and so is the log a call
\* started with of the log at any later point of the call.
C17_LogAppendOnly ==
    /\ [][IsPrefix(log, log') /\ (exists => exists')]_vars
    /\ [](IsPrefix(log0, log))

\* A second call, started on a log holding one record, has appended another.
C17_Witness ==
    /\ runs = 2
    /\ Len(log0) = 2
    /\ Len(log) = 4
    /\ SubSeq(log, 1, 2) = log0

\* C18: in every call the existence test and the read of the log happen
\* before anything is done for an item, and once: as soon as a pair has been
\* yielded, an item assembled, a process started or a piece appended, the
\* generator has started; what it read is the log the call started with (no
\* log: nothing read, every item yielded); and what it read never changes
\* during the call, whatever the call appends.
C18_ScanOnceBeforeWork ==
    /\ [](runs >= 1 =>
            /\ (\/ pending # <<>>
                \/ log # log0
                \/ \E p \in 1..Len(dataset) : asm_count[p] > 0
                \/ \E w \in Procs : workers[w] # IdleWorker) => gen.started
            /\ gen.started =>
                  IF gen.from_log
                  THEN WellFormed(log0) /\ gen.exist_items = LogIds(log0)
                  ELSE log0 = <<>> /\ gen.exist_items = <<>>
            /\ \A k \in 1..Len(pending) : pending[k].item.id \notin DoneIds0)
    /\ [][(gen.started /\ runs' = runs) =>
            /\ gen'.started
            /\ gen'.from_log = gen.from_log
            /\ gen'.exist_items = gen.exist_items]_vars

\* A sequential call that found no file has created it with the record of
\* the first item and is working on the second item.
C18_Witness ==
    /\ status = "seq"
    /\ gen.started
    /\ ~gen.from_log
    /\ exists
    /\ Len(log) = 2
    /\ workers[MainProc].pc = "assemble"
    /\ Pos(MainProc) = 2

\* C19: a get_completion call never makes more than max_attempts completion()
\* calls (none when max_attempts <= 0); it has returned a response only from
\* its latest call, which every earlier call preceded with a retryable
\* failure (j calls for a success at attempt j); and its next step in the
\* loop is another completion() call if fewer than max_attempts have been
\* made, the exhaustion error with no further call otherwise.
C19_AttemptsBounded ==
    /\ [](\A w \in Procs :
            /\ workers[w].calls >= 0
            /\ workers[w].calls <= (IF max_attempts > 0 THEN max_attempts ELSE 0)
            /\ workers[w].pc = "post" =>
                  /\ workers[w].last = "ok"
                  /\ workers[w].calls = workers[w].attempt + 1
            /\ max_attempts <= 0 =>
                  /\ workers[w].calls = 0
                  /\ workers[w].pc \notin {"post", "lock", "write", "write_fail"}
                  /\ workers[w].pc = "raise" =>
                        workers[w].exc.type \in {"AssembleError",
                                                 "CompletionFailedException"})
    /\ [][\A w \in Procs :
            (workers[w].pc = "call" /\ workers'[w] # workers[w]) =>
                IF workers[w].calls < max_attempts
                THEN workers'[w].calls = workers[w].calls + 1
                ELSE /\ workers'[w].calls = workers[w].calls
                     /\ workers'[w].pc = "raise"
                     /\ workers'[w].exc.type = "CompletionFailedException"]_vars

\* A response was returned by the second call, after one retryable failure.
C19_Witness ==
    \E w \in Procs :
        /\ workers[w].pc = "post"
        /\ workers[w].attempt = 1
        /\ workers[w].calls = 2
        /\ max_attempts = 2

====
